---- MODULE Spec2Model ----
(***************************************************************************)
(* Habit Analytics Engine: the productivity scorer, the record normalizer  *)
(* (get_dataframe over the daily_logs table) and the calendar rollups.     *)
(*                                                                         *)
(* Units.  Hours are integers in hundredths of an hour (7.5 h = 750).      *)
(* Scores are integers in hundredths of a point (5.5 = 550).  Inside the   *)
(* scorer the three components are kept exactly, in 1/12000 of a point,    *)
(* and the weighted sum in 1/1200000 of a point, so that /12 and the       *)
(* weights 0.6, 0.35 and 2.0 lose nothing before the final rounding.       *)
(* Rounding to 2 decimals is to the nearest hundredth; a value exactly     *)
(* halfway between two hundredths goes to the even one (the documented     *)
(* rule of Python's round and of numpy's round).  On binary doubles the    *)
(* halfway cases are decided by the representation error of the operands,  *)
(* so the formulas below bound a rounded value by the half unit and never  *)
(* rest on which neighbour a halfway case takes.                           *)
(*                                                                         *)
(* Text is a sequence of one-character strings.                            *)
(***************************************************************************)
EXTENDS Integers, Sequences, FiniteSets, TLC

VARIABLES row, result, db, df, weekly, monthly, X,
          heatmap, clusters, clusters_before, models, prediction,
          records_count, n_clusters, np_random

\* what one run of the Analytics page computes from its frame
analyticsVars == <<heatmap, clusters, clusters_before, models, prediction>>

\* a record count and the number of clusters asked for it
countVars == <<records_count, n_clusters>>

vars == <<row, result, db, df, weekly, monthly, X, analyticsVars, countVars, np_random>>

(***************************************************************************)
(* Bounds of the model                                                     *)
(***************************************************************************)
\* hours offered to the scorer: 0, 0.5, ..., MaxHalfHours/2
MaxHalfHours == 48
\* rows of daily_logs in the application specification
MaxLogs == 3
\* rows of daily_logs in the normalizer specification
MaxRawLogs == 2
\* logs entered before the Analytics page is opened
MaxPoints == 3
\* the largest number of logs a number of clusters is asked for
MaxRecordCount == 60
\* logs entered before the activity heatmap is drawn
MaxActivityLogs == 2
\* logs entered before every computation of the page is run
MaxPageLogs == 3

(***************************************************************************)
(* Values                                                                  *)
(***************************************************************************)
\* an optional result: <<>> is "not computed", <<v>> is the value v
Some(v) == <<v>>

\* a stored or in-memory cell: a number, SQL NULL / Python None, text, or
\* (for a dict) a key that is not there
Num(n) == [k |-> "num", n |-> n, s |-> <<>>]
Null == [k |-> "null", n |-> 0, s |-> <<>>]
Text(s) == [k |-> "text", n |-> 0, s |-> s]
Absent == [k |-> "absent", n |-> 0, s |-> <<>>]
\* a float cell of a DataFrame that holds no value
NaN == [k |-> "nan", n |-> 0, s |-> <<>>]
\* the float inf, which a REAL column stores and returns as it is
Inf == [k |-> "inf", n |-> 0, s |-> <<>>]

IsNum(c) == c.k = "num"

Abs(x) == IF x < 0 THEN -x ELSE x
Min(a, b) == IF a <= b THEN a ELSE b
Max(a, b) == IF a >= b THEN a ELSE b

\* num/den (den > 0) rounded to the nearest integer, halfway to even
RoundDiv(num, den) ==
  LET q == num \div den
      r == num % den
  IN  IF 2 * r < den THEN q
      ELSE IF 2 * r > den THEN q + 1
      ELSE IF q % 2 = 0 THEN q ELSE q + 1

(***************************************************************************)
(* str.lower                                                               *)
(***************************************************************************)
UpperChars == <<"A","B","C","D","E","F","G","H","I","J","K","L","M",
                "N","O","P","Q","R","S","T","U","V","W","X","Y","Z">>
LowerChars == <<"a","b","c","d","e","f","g","h","i","j","k","l","m",
                "n","o","p","q","r","s","t","u","v","w","x","y","z">>

LowerChar(c) ==
  IF \E i \in 1..Len(UpperChars) : UpperChars[i] = c
  THEN LowerChars[CHOOSE i \in 1..Len(UpperChars) : UpperChars[i] = c]
  ELSE c

lower(s) == [i \in 1..Len(s) |-> LowerChar(s[i])]

\* str(x) of a stored TEXT value: str(None) is the word None
StrOf(cell) == IF cell.k = "null" THEN <<"N","o","n","e">> ELSE cell.s

\* the characters str.strip() removes
Whitespace == {" ", "\t", "\n", "\r"}

\* s.strip()
strip(s) ==
  LET keep == {i \in 1..Len(s) : s[i] \notin Whitespace}
  IN  IF keep = {} THEN <<>>
      ELSE SubSeq(s, CHOOSE i \in keep : \A j \in keep : i <= j,
                     CHOOSE i \in keep : \A j \in keep : i >= j)

\* s.replace(old, new) for one-character old and new
replace(s, old, new) == [i \in 1..Len(s) |-> IF s[i] = old THEN new ELSE s[i]]

\* s.split(sep) for a one-character sep: the pieces between the separators,
\* empty pieces included
RECURSIVE split(_, _)
split(s, sep) ==
  IF \A i \in 1..Len(s) : s[i] # sep THEN <<s>>
  ELSE LET i == CHOOSE i \in 1..Len(s) : s[i] = sep /\ \A j \in 1..(i - 1) : s[j] # sep
       IN  <<SubSeq(s, 1, i - 1)>> \o split(SubSeq(s, i + 1, Len(s)), sep)

(***************************************************************************)
(* compute_productivity_score                                              *)
(***************************************************************************)
\* the moods that earn the bonus
BonusMoods == { <<"g","o","o","d">>, <<"g","r","e","a","t">>,
                <<"h","a","p","p","y">>,
                <<"e","n","e","r","g","i","z","e","d">> }

\* row.get(key, default): the default only when the key is not there
DictGet(cell, default) == IF cell.k = "absent" THEN default ELSE cell

\* (mutant) the study credit without the cap at 12 hours
StudyComponentUncapped(H) == H * 100

\* (mutant) the study credit capped at 20 hours
StudyComponentCappedAtTwenty(H) == Min(H, 2000) * 100

\* study = min(row.get("study_hours", 0), 12) / 12 * 10, in 1/12000
StudyComponent(H) == Min(H, 1200) * 100

\* (mutant) the sleep credit with its peak at 8 hours
SleepComponentPeakAtEight(S) == Max(0, 120000 - Abs(800 - S) * 180)

\* sleep_score = max(0, 10 - abs(7.5 - sleep) * 1.5), in 1/12000
SleepComponent(S) == Max(0, 120000 - Abs(750 - S) * 180)

\* truth value of a Python object
Truthy(cell) ==
  CASE cell.k = "num" -> cell.n # 0
    [] cell.k = "text" -> Len(cell.s) > 0
    [] OTHER -> FALSE

\* (mutant) the mood compared without lower()
MoodComponentCaseSensitive(mood) ==
  IF Truthy(mood) /\ mood.s \in BonusMoods THEN 12000 ELSE 0

\* mood_score = 1.0 if mood and mood.lower() in (...) else 0.0, in 1/12000
MoodComponent(mood) ==
  IF Truthy(mood) /\ lower(mood.s) \in BonusMoods THEN 12000 ELSE 0

\* (mutant) the score made of the mood bonus alone
WeightedSumMoodOnly(study, sleep_score, mood_score) == 200 * mood_score

\* score = 0.6 * study + 0.35 * sleep_score + 2.0 * mood_score, in 1/1200000
WeightedSum(study, sleep_score, mood_score) ==
  60 * study + 35 * sleep_score + 200 * mood_score

\* round(score, 2), in hundredths
Round2(u) == RoundDiv(u, 12000)

Raised == [raised |-> TRUE, value |-> 0]
Returned(v) == [raised |-> FALSE, value |-> v]

\* r is a dict (or a DataFrame row) with the cells study_hours, sleep_hours
\* and mood.  min(), abs(7.5 - x) and .lower() raise on an operand of the
\* wrong type.
compute_productivity_score(r) ==
  LET study_hours == DictGet(r.study_hours, Num(0))
      sleep == DictGet(r.sleep_hours, Num(0))
      mood == DictGet(r.mood, Text(<<>>))
  IN  IF ~IsNum(study_hours) THEN Raised
      ELSE IF ~IsNum(sleep) THEN Raised
      ELSE IF Truthy(mood) /\ mood.k # "text" THEN Raised
      ELSE Returned(Round2(WeightedSum(StudyComponent(study_hours.n),
                                       SleepComponent(sleep.n),
                                       MoodComponent(mood))))

(***************************************************************************)
(* Dates: str(date) is ISO text "YYYY-MM-DD", kept as its three zero-padded *)
(* fields; a Timestamp is the calendar day with its day number since       *)
(* 1970-01-01.                                                             *)
(***************************************************************************)
IsoDate(y, m, d) == [y |-> y, m |-> m, d |-> d]

\* text comparison of two ISO dates (SQLite compares TEXT bytewise; the
\* fields are fixed-width digits, most significant first)
TextLessEq(a, b) ==
  \/ a.y < b.y
  \/ a.y = b.y /\ a.m < b.m
  \/ a.y = b.y /\ a.m = b.m /\ a.d <= b.d

\* proleptic Gregorian day number of y-m-d, 1970-01-01 = 0
DaysFromCivil(y, m, d) ==
  LET yy == IF m <= 2 THEN y - 1 ELSE y
      era == yy \div 400
      yoe == yy - era * 400
      mp == IF m > 2 THEN m - 3 ELSE m + 9
      doy == (153 * mp + 2) \div 5 + d - 1
      doe == yoe * 365 + yoe \div 4 - yoe \div 100 + doy
  IN  era * 146097 + doe - 719468

\* the calendar day with day number z
CivilFromDays(z) ==
  LET zz == z + 719468
      era == zz \div 146097
      doe == zz - era * 146097
      yoe == (doe - doe \div 1460 + doe \div 36524 - doe \div 146096) \div 365
      doy == doe - (365 * yoe + yoe \div 4 - yoe \div 100)
      mp == (5 * doy + 2) \div 153
      d == doy - (153 * mp + 2) \div 5 + 1
      m == IF mp < 10 THEN mp + 3 ELSE mp - 9
      y == yoe + era * 400 + (IF m <= 2 THEN 1 ELSE 0)
  IN  [y |-> y, m |-> m, d |-> d, ord |-> z]

\* pd.to_datetime of an ISO date text
to_datetime(date) ==
  [y |-> date.y, m |-> date.m, d |-> date.d,
   ord |-> DaysFromCivil(date.y, date.m, date.d)]

\* Timestamp.weekday(): Monday = 0 ... Sunday = 6 (1970-01-01 was a Thursday)
Weekday(ts) == (ts.ord + 3) % 7

IsLeap(y) == (y % 4 = 0 /\ y % 100 # 0) \/ y % 400 = 0

DaysInMonth(y, m) ==
  IF m = 2 THEN (IF IsLeap(y) THEN 29 ELSE 28)
  ELSE IF m \in {4, 6, 9, 11} THEN 30 ELSE 31

\* a date text that names a day of the calendar; any other text makes
\* pd.to_datetime raise
IsCalendarDate(date) ==
  date.m \in 1..12 /\ date.d \in 1..DaysInMonth(date.y, date.m)

\* pd.to_datetime(df["date"]) raises when one stored date does not parse
ToDatetimeRaises(rows) ==
  \E i \in 1..Len(rows) : ~IsCalendarDate(rows[i].date)

(***************************************************************************)
(* database.py: the daily_logs table, rows in rowid order                  *)
(***************************************************************************)
IsDigit(c) == c \in {"0","1","2","3","4","5","6","7","8","9"}

DigitValue(c) ==
  CASE c = "0" -> 0 [] c = "1" -> 1 [] c = "2" -> 2 [] c = "3" -> 3
    [] c = "4" -> 4 [] c = "5" -> 5 [] c = "6" -> 6 [] c = "7" -> 7
    [] c = "8" -> 8 [] c = "9" -> 9

\* the text is a non-empty run of decimal digits
LooksNumeric(s) == Len(s) > 0 /\ \A i \in 1..Len(s) : IsDigit(s[i])

RECURSIVE DigitsValue(_)
DigitsValue(s) ==
  IF Len(s) = 0 THEN 0
  ELSE 10 * DigitsValue(SubSeq(s, 1, Len(s) - 1)) + DigitValue(s[Len(s)])

\* the number a numeric text stands for, in hundredths
ParseNumber(s) == Num(100 * DigitsValue(s))

\* a REAL or INTEGER column stores text that looks like a number as that
\* number, and any other text as text
NumericAffinity(cell) ==
  IF cell.k = "text" /\ LooksNumeric(cell.s) THEN ParseNumber(cell.s) ELSE cell

\* INSERT INTO daily_logs (...) VALUES (...): id is AUTOINCREMENT and no row
\* is ever deleted
insert_log(table, date, sleep_hours, study_hours, activities, mood, water_intake, steps, screen_time_minutes, productivity_score) ==
  Append(table,
         [id |-> Len(table) + 1,
          date |-> date,
          sleep_hours |-> NumericAffinity(sleep_hours),
          study_hours |-> NumericAffinity(study_hours),
          activities |-> activities,
          mood |-> mood,
          water_intake |-> NumericAffinity(water_intake),
          steps |-> NumericAffinity(steps),
          screen_time_minutes |-> NumericAffinity(screen_time_minutes),
          productivity_score |-> NumericAffinity(productivity_score)])

\* (mutant) the UPDATE without the productivity_score column
update_log_keeping_score(table, log_id, sleep_hours, study_hours, activities, mood, productivity_score) ==
  [i \in 1..Len(table) |->
     IF table[i].id = log_id
     THEN [table[i] EXCEPT !.sleep_hours = NumericAffinity(sleep_hours),
                           !.study_hours = NumericAffinity(study_hours),
                           !.activities = activities,
                           !.mood = mood]
     ELSE table[i]]

\* UPDATE daily_logs SET sleep_hours = ?, study_hours = ?, activities = ?,
\* mood = ?, productivity_score = ? WHERE id = ?  (the keyword set the Edit
\* Logs page passes; one statement, one commit)
update_log(table, log_id, sleep_hours, study_hours, activities, mood, productivity_score) ==
  [i \in 1..Len(table) |->
     IF table[i].id = log_id
     THEN [table[i] EXCEPT !.sleep_hours = NumericAffinity(sleep_hours),
                           !.study_hours = NumericAffinity(study_hours),
                           !.activities = activities,
                           !.mood = mood,
                           !.productivity_score = NumericAffinity(productivity_score)]
     ELSE table[i]]

\* r placed after every row of the sorted run whose date is <= r's date
InsertByDate(sorted, r) ==
  LET n == Cardinality({i \in 1..Len(sorted) : TextLessEq(sorted[i].date, r.date)})
  IN  SubSeq(sorted, 1, n) \o <<r>> \o SubSeq(sorted, n + 1, Len(sorted))

RECURSIVE SortByDate(_)
\* the sorter: rows fed in table order, each placed behind the rows already
\* sorted whose key is not greater
SortByDate(table) ==
  IF Len(table) = 0 THEN <<>>
  ELSE InsertByDate(SortByDate(SubSeq(table, 1, Len(table) - 1)), table[Len(table)])

\* (mutant) SELECT * FROM daily_logs, without the ORDER BY
FetchUnordered(table) == table

\* SELECT * FROM daily_logs ORDER BY date ASC.  There is no index on date:
\* SQLite scans the table in rowid order into its sorter, which keeps rows of
\* equal key in the order they were fed.
fetch_logs(table) == SortByDate(table)

\* SELECT * FROM daily_logs WHERE id = ?
fetch_log_by_id(table, log_id) ==
  IF \E i \in 1..Len(table) : table[i].id = log_id
  THEN Some(table[CHOOSE i \in 1..Len(table) : table[i].id = log_id])
  ELSE <<>>

(***************************************************************************)
(* get_dataframe                                                           *)
(***************************************************************************)
\* pd.to_numeric(column, errors="coerce") on one cell
to_numeric(cell) ==
  CASE cell.k = "num" -> cell
    [] cell.k = "inf" -> cell
    [] cell.k = "text" /\ LooksNumeric(cell.s) -> ParseNumber(cell.s)
    [] OTHER -> NaN

\* .fillna(v) on one cell
fillna(cell, v) == IF cell.k = "nan" THEN Num(v) ELSE cell

\* sleep_hours, study_hours: to_numeric(...).fillna(0.0)
CoerceHours(cell) == fillna(to_numeric(cell), 0)

\* (mutant) an optional column zero-filled like the hours columns
CoerceOptionalFilled(cell) == fillna(to_numeric(cell), 0)

\* water_intake, steps, screen_time_minutes: to_numeric(...) alone
CoerceOptional(cell) == to_numeric(cell)

\* lines 25-38: the frame before the score backfill
CoerceRow(r) ==
  [id |-> r.id,
   date |-> to_datetime(r.date),
   sleep_hours |-> CoerceHours(r.sleep_hours),
   study_hours |-> CoerceHours(r.study_hours),
   activities |-> r.activities,
   mood |-> r.mood,
   water_intake |-> CoerceOptional(r.water_intake),
   steps |-> CoerceOptional(r.steps),
   screen_time_minutes |-> CoerceOptional(r.screen_time_minutes),
   productivity_score |-> to_numeric(r.productivity_score)]

\* the value .apply(compute_productivity_score, axis=1) yields for one row
\* of the coerced frame
AppliedScore(r) ==
  compute_productivity_score([study_hours |-> r.study_hours,
                              sleep_hours |-> r.sleep_hours,
                              mood |-> r.mood])

\* (mutant) the score recomputed for every row, stored or not
BackfillAlways(r) ==
  [r EXCEPT !.productivity_score = Num(AppliedScore(r).value)]

\* df.loc[missing_score, "productivity_score"] = ... for one row
Backfill(r) ==
  IF r.productivity_score.k = "nan"
  THEN [r EXCEPT !.productivity_score = Num(AppliedScore(r).value)]
  ELSE r

\* the apply raises when the scorer raises on a row with a missing score
BackfillRaises(frame) ==
  \E i \in 1..Len(frame) :
     frame[i].productivity_score.k = "nan" /\ AppliedScore(frame[i]).raised

\* get_dataframe() on the rows fetch_logs returned: an empty DataFrame for no
\* rows, else the coerced and backfilled frame, one row per stored row in
\* the order fetched
get_dataframe(rows) ==
  LET frame == [i \in 1..Len(rows) |-> CoerceRow(rows[i])]
  IN  IF Len(rows) = 0 THEN [raised |-> FALSE, frame |-> <<>>]
      ELSE IF ToDatetimeRaises(rows) THEN [raised |-> TRUE, frame |-> <<>>]
      ELSE IF BackfillRaises(frame) THEN [raised |-> TRUE, frame |-> <<>>]
      ELSE [raised |-> FALSE, frame |-> [i \in 1..Len(frame) |-> Backfill(frame[i])]]

(***************************************************************************)
(* weekly_summary, monthly_summary                                         *)
(***************************************************************************)
RECURSIVE SumCells(_)
\* sum of the numbers of a sequence of cells, NaN skipped
SumCells(cells) ==
  IF Len(cells) = 0 THEN 0
  ELSE (IF IsNum(cells[1]) THEN cells[1].n ELSE 0) + SumCells(Tail(cells))

CountCells(cells) == Cardinality({i \in 1..Len(cells) : IsNum(cells[i])})

\* "mean" then .round(2): NaN for a bucket without a value
AggMean(cells) ==
  IF CountCells(cells) = 0 THEN NaN
  ELSE Num(RoundDiv(SumCells(cells), CountCells(cells)))

\* "sum" then .round(2): 0 for a bucket without a value
AggSum(cells) == Num(RoundDiv(SumCells(cells), 1))

Column(frame, name) == [i \in 1..Len(frame) |-> frame[i][name]]

\* (mutant) study_hours aggregated by "mean" like the other two columns
AggregateAllMeans(label, members) ==
  [date |-> label,
   sleep_hours |-> AggMean(Column(members, "sleep_hours")),
   study_hours |-> AggMean(Column(members, "study_hours")),
   productivity_score |-> AggMean(Column(members, "productivity_score"))]

\* .agg({"sleep_hours": "mean", "study_hours": "sum",
\*       "productivity_score": "mean"}).round(2) for one bin
Aggregate(label, members) ==
  [date |-> label,
   sleep_hours |-> AggMean(Column(members, "sleep_hours")),
   study_hours |-> AggSum(Column(members, "study_hours")),
   productivity_score |-> AggMean(Column(members, "productivity_score"))]

MinOrd(frame) ==
  CHOOSE o \in {frame[i].date.ord : i \in 1..Len(frame)} :
     \A i \in 1..Len(frame) : o <= frame[i].date.ord

MaxOrd(frame) ==
  CHOOSE o \in {frame[i].date.ord : i \in 1..Len(frame)} :
     \A i \in 1..Len(frame) : o >= frame[i].date.ord

\* (mutant) weekly bins closed on the left: a Sunday opens the next bin
WeekBinClosedLeft(ts) == ts.ord + 7 - ((Weekday(ts) + 1) % 7)

\* resample("W"): weekly bins anchored on Sunday, closed and labelled on the
\* right; the day number of the Sunday that ends ts's bin
WeekBin(ts) == ts.ord + (6 - Weekday(ts))

\* resample("M"): calendar months, labelled by the month's last day
MonthBin(ts) == ts.y * 12 + (ts.m - 1)

MonthLabel(b) ==
  LET y == b \div 12
      m == (b % 12) + 1
  IN  [y |-> y, m |-> m, d |-> DaysInMonth(y, m),
       ord |-> DaysFromCivil(y, m, DaysInMonth(y, m))]

\* the resampler emits every bin from the first record's to the last
\* record's, occupied or not
WeeklyBins(frame) ==
  LET first == WeekBin(CivilFromDays(MinOrd(frame)))
      last == WeekBin(CivilFromDays(MaxOrd(frame)))
  IN  [k \in 1..((last - first) \div 7 + 1) |-> first + 7 * (k - 1)]

MonthlyBins(frame) ==
  LET first == MonthBin(CivilFromDays(MinOrd(frame)))
      last == MonthBin(CivilFromDays(MaxOrd(frame)))
  IN  [k \in 1..(last - first + 1) |-> first + (k - 1)]

\* weekly_summary(df): an empty DataFrame for an empty df
weekly_summary(frame) ==
  IF Len(frame) = 0 THEN <<>>
  ELSE LET bins == WeeklyBins(frame)
       IN  [k \in 1..Len(bins) |->
              Aggregate(CivilFromDays(bins[k]),
                        SelectSeq(frame, LAMBDA r : WeekBin(r.date) = bins[k]))]

\* monthly_summary(df): an empty DataFrame for an empty df
monthly_summary(frame) ==
  IF Len(frame) = 0 THEN <<>>
  ELSE LET bins == MonthlyBins(frame)
       IN  [k \in 1..Len(bins) |->
              Aggregate(MonthLabel(bins[k]),
                        SelectSeq(frame, LAMBDA r : MonthBin(r.date) = bins[k]))]

(***************************************************************************)
(* activity_heatmap_data: activity tokens counted per weekday               *)
(*                                                                         *)
(* A table is a record of its index (row labels), its columns (column      *)
(* labels) and its values, values[i][j] being the cell of row i, column j. *)
(***************************************************************************)
\* pd.DataFrame()
EmptyDataFrame == [index |-> <<>>, columns |-> <<>>, values |-> <<>>]

weekday_order ==
  <<"Monday", "Tuesday", "Wednesday", "Thursday", "Friday", "Saturday", "Sunday">>

\* Timestamp.day_name()
day_name(ts) == weekday_order[Weekday(ts) + 1]

\* lines 74-77: str() of the cell, ';' read as ',', split, each piece
\* stripped and lowered, the empty pieces dropped
ActivityTokens(cell) ==
  LET acts == split(replace(StrOf(cell), ";", ","), ",")
      cleaned == [i \in 1..Len(acts) |-> lower(strip(acts[i]))]
  IN  SelectSeq(cleaned, LAMBDA a : a # <<>>)

\* lines 72-79: one (weekday, activity) row per token, in frame order
RECURSIVE HeatRows(_)
HeatRows(frame) ==
  IF frame = <<>> THEN <<>>
  ELSE LET r == Head(frame)
           acts == ActivityTokens(r.activities)
       IN  [i \in 1..Len(acts) |-> [weekday |-> day_name(r.date), activity |-> acts[i]]]
           \o HeatRows(Tail(frame))

\* the characters of a token in code point order
CharOrder ==
  <<" ", "0", "1", "2", "3", "4", "5", "6", "7", "8", "9">> \o LowerChars

CharCode(c) == CHOOSE i \in 1..Len(CharOrder) : CharOrder[i] = c

\* a < b as Python compares two str
StrLess(a, b) ==
  \E i \in 1..(Min(Len(a), Len(b)) + 1) :
     /\ \A j \in 1..(i - 1) : a[j] = b[j]
     /\ \/ i > Len(a) /\ i <= Len(b)
        \/ i <= Len(a) /\ i <= Len(b) /\ CharCode(a[i]) < CharCode(b[i])

\* the group keys of the pivot, sorted
RECURSIVE SortTokens(_)
SortTokens(S) ==
  IF S = {} THEN <<>>
  ELSE LET m == CHOOSE m \in S : \A x \in S \ {m} : StrLess(m, x)
       IN  <<m>> \o SortTokens(S \ {m})

\* aggfunc=len over the rows of one (activity, weekday) group; fill_value=0
\* where the group has no row
PivotCount(hf, activity, weekday) ==
  Cardinality({i \in 1..Len(hf) : hf[i].activity = activity /\ hf[i].weekday = weekday})

\* lines 85-87: the weekdays the pivot has a column for, Monday first
HeatmapColumns(hf) ==
  LET pivot_columns == {hf[i].weekday : i \in 1..Len(hf)}
  IN  SelectSeq(weekday_order, LAMBDA c : c \in pivot_columns)

activity_heatmap_data(frame) ==
  LET hf == HeatRows(frame)
      index == SortTokens({hf[i].activity : i \in 1..Len(hf)})
      cols == HeatmapColumns(hf)
  IN  IF Len(frame) = 0 THEN EmptyDataFrame
      ELSE IF Len(hf) = 0 THEN EmptyDataFrame
      ELSE [index |-> index,
            columns |-> cols,
            values |-> [i \in 1..Len(index) |->
                          [j \in 1..Len(cols) |-> PivotCount(hf, index[i], cols[j])]]]

(***************************************************************************)
(* train_regression: the feature matrix                                    *)
(***************************************************************************)
\* (mutant) the features taken from the frame without .fillna(0)
FeatureRowNoFill(r) == <<r.sleep_hours, r.study_hours, r.water_intake>>

\* one row of X = df[["sleep_hours","study_hours","water_intake"]].fillna(0)
FeatureRow(r) ==
  <<fillna(r.sleep_hours, 0), fillna(r.study_hours, 0), fillna(r.water_intake, 0)>>

\* lines 47-50: fewer than 2 rows return the message before X is built
RegressionFeatures(frame) ==
  IF Len(frame) < 2 THEN [insufficient |-> TRUE, rows |-> <<>>]
  ELSE [insufficient |-> FALSE, rows |-> [i \in 1..Len(frame) |-> FeatureRow(frame[i])]]

(***************************************************************************)
(* get_clusters                                                            *)
(*                                                                         *)
(* A point is <<sleep_hours, study_hours, productivity_score>> in           *)
(* hundredths.  A cluster centre is the mean of its points, kept exact as  *)
(* the record of their sum and their number.  None is <<>>.                *)
(***************************************************************************)
None == <<>>

\* (mutant) one cluster per three logs without the floor of 2 and the cap of 4
ClusterCountUnclamped(n) == n \div 3

\* line 16: k = min(4, max(2, n // 3))
ClusterCount(n) == Min(4, Max(2, n \div 3))

\* line 15: one row of df[["sleep_hours","study_hours","productivity_score"]].fillna(0)
ClusterPoint(r) ==
  <<fillna(r.sleep_hours, 0).n, fillna(r.study_hours, 0).n,
    fillna(r.productivity_score, 0).n>>

SqNorm(p) == p[1] * p[1] + p[2] * p[2] + p[3] * p[3]

\* the rows of points that an assignment gives the cluster c
Members(points, assignment, c) == {i \in 1..Len(points) : assignment[i] = c}

RECURSIVE SumPoints(_, _)
SumPoints(points, S) ==
  IF S = {} THEN <<0, 0, 0>>
  ELSE LET i == CHOOSE i \in S : TRUE
           rest == SumPoints(points, S \ {i})
       IN  <<points[i][1] + rest[1], points[i][2] + rest[2], points[i][3] + rest[3]>>

RECURSIVE SumSqNorms(_, _)
SumSqNorms(points, S) ==
  IF S = {} THEN 0
  ELSE LET i == CHOOSE i \in S : TRUE
       IN  SqNorm(points[i]) + SumSqNorms(points, S \ {i})

\* a multiple of every number of points a cluster can have
RECURSIVE CommonScale(_)
CommonScale(n) == IF n <= 1 THEN 1 ELSE n * CommonScale(n - 1)

\* the inertia of an assignment (the squared distances of the points to the
\* mean of their cluster, summed) times scale, a multiple of every cluster's
\* number of points
RECURSIVE ScaledInertia(_, _, _, _)
ScaledInertia(points, assignment, c, scale) ==
  IF c < 0 THEN 0
  ELSE LET S == Members(points, assignment, c)
           n == Cardinality(S)
       IN  (IF n = 0 THEN 0
            ELSE (scale \div n) * (n * SumSqNorms(points, S) - SqNorm(SumPoints(points, S))))
           + ScaledInertia(points, assignment, c - 1, scale)

\* the inertia of an assignment into k clusters, in the common scale
Inertia(points, k, assignment) ==
  ScaledInertia(points, assignment, k - 1, CommonScale(Len(points)))

\* an assignment as a number, the label of the first point the lowest digit
RECURSIVE AssignmentCode(_, _, _)
AssignmentCode(assignment, k, i) ==
  IF i > Len(assignment) THEN 0
  ELSE assignment[i] + k * AssignmentCode(assignment, k, i + 1)

\* lines 17-20: KMeans(n_clusters=k, random_state=..., n_init=10).fit_predict(X).
\* The fit keeps the run of least inertia out of 10 starts drawn from the
\* generator random_state stands for.  The result is an assignment of least
\* inertia; where several assignments share the least inertia the generator
\* decides which of them is kept.  The centre of a cluster that got no
\* point is a point of the data.
KMeans(points, k, random_state) ==
  LET assignments == [1..Len(points) -> 0..(k - 1)]
      inertias == {Inertia(points, k, a) : a \in assignments}
      least == CHOOSE m \in inertias : \A x \in inertias : m <= x
      best == {a \in assignments : Inertia(points, k, a) = least}
      drawn == random_state % Cardinality(best)
      labels == CHOOSE a \in best :
                   Cardinality({b \in best : AssignmentCode(b, k, 1) < AssignmentCode(a, k, 1)})
                     = drawn
  IN  [n_clusters |-> k,
       labels_ |-> labels,
       cluster_centers_ |->
         [i \in 1..k |->
            LET S == Members(points, labels, i - 1)
            IN  IF S = {} THEN [sum |-> points[1], count |-> 1]
                ELSE [sum |-> SumPoints(points, S), count |-> Cardinality(S)]]]

\* (mutant) the heuristic with the sleep of the centre read where its score is
DescriptorFromSleep(c) ==
  IF c.sum[2] >= 600 * c.count /\ c.sum[1] >= 600 * c.count THEN "high-focus"
  ELSE IF c.sum[1] < 400 * c.count /\ c.sum[2] < 300 * c.count THEN "low-energy"
  ELSE IF c.sum[1] < 500 * c.count /\ c.sum[2] >= 300 * c.count THEN "burnout-risk"
  ELSE "balanced"

\* lines 24-32: the descriptor of a centre, study_c = sum[2] / count and
\* score_c = sum[3] / count
Descriptor(c) ==
  IF c.sum[2] >= 600 * c.count /\ c.sum[3] >= 600 * c.count THEN "high-focus"
  ELSE IF c.sum[3] < 400 * c.count /\ c.sum[2] < 300 * c.count THEN "low-energy"
  ELSE IF c.sum[3] < 500 * c.count /\ c.sum[2] >= 300 * c.count THEN "burnout-risk"
  ELSE "balanced"

NotEnoughClusters == "Not enough data to form clusters (need at least 3 logs)."
ClusteringError == "Clustering error: e"

\* the validation of scikit-learn raises ValueError for a matrix that holds
\* an infinite value
ClusterFitRaises(frame) ==
  \E i \in 1..Len(frame) :
     \/ frame[i].sleep_hours.k = "inf"
     \/ frame[i].study_hours.k = "inf"
     \/ frame[i].productivity_score.k = "inf"

\* lines 12-37 with the generator the fit draws from as a parameter; what
\* the fit raises the except clause turns into the error message
ClustersDrawnFrom(frame, random_state) ==
  LET points == [i \in 1..Len(frame) |-> ClusterPoint(frame[i])]
      km == KMeans(points, ClusterCount(Len(frame)), random_state)
      descriptors == [i \in 1..km.n_clusters |-> Descriptor(km.cluster_centers_[i])]
  IN  IF Len(frame) < 3
      THEN [raised |-> FALSE, labels |-> None, model |-> None,
            error |-> Some(NotEnoughClusters)]
      ELSE IF ClusterFitRaises(frame)
      THEN [raised |-> FALSE, labels |-> None, model |-> None,
            error |-> Some(ClusteringError)]
      ELSE [raised |-> FALSE,
            labels |-> Some([i \in 1..Len(frame) |-> descriptors[km.labels_[i] + 1]]),
            model |-> Some(km),
            error |-> None]

\* (mutant) get_clusters asking two logs before it clusters
get_clusters_from_two(frame) ==
  LET points == [i \in 1..Len(frame) |-> ClusterPoint(frame[i])]
      km == KMeans(points, ClusterCount(Len(frame)), 42)
      descriptors == [i \in 1..km.n_clusters |-> Descriptor(km.cluster_centers_[i])]
  IN  IF Len(frame) < 2
      THEN [raised |-> FALSE, labels |-> None, model |-> None,
            error |-> Some(NotEnoughClusters)]
      ELSE IF ClusterFitRaises(frame)
      THEN [raised |-> FALSE, labels |-> None, model |-> None,
            error |-> Some(ClusteringError)]
      ELSE [raised |-> FALSE,
            labels |-> Some([i \in 1..Len(frame) |-> descriptors[km.labels_[i] + 1]]),
            model |-> Some(km),
            error |-> None]

\* (mutant) get_clusters without its except clause
get_clusters_uncaught(frame) ==
  IF Len(frame) >= 3 /\ ClusterFitRaises(frame)
  THEN [raised |-> TRUE, labels |-> None, model |-> None, error |-> None]
  ELSE ClustersDrawnFrom(frame, 42)

\* get_clusters(df) = (str_labels, km, error), raised when the call ends in
\* an exception: the generator is a new one seeded with 42 at every call
get_clusters(frame) == ClustersDrawnFrom(frame, 42)

(***************************************************************************)
(* train_regression and predict_next                                       *)
(***************************************************************************)
NotEnoughRegression == "Not enough data for regression (need at least 2 logs)."
RegressionError == "Regression training error: e"

\* LinearRegression().fit(X, y): the fitted model is determined by the data
\* it was fitted on
LinearRegressionFit(features, target) == [X |-> features, y |-> target]

\* the validation of scikit-learn raises ValueError for a matrix or a target
\* that holds an infinite value
RegressionFitRaises(frame) ==
  \E i \in 1..Len(frame) :
     \/ frame[i].sleep_hours.k = "inf"
     \/ frame[i].study_hours.k = "inf"
     \/ frame[i].water_intake.k = "inf"
     \/ frame[i].productivity_score.k = "inf"

\* (mutant) train_regression fitting a single log
train_regression_from_one(frame) ==
  LET features == [i \in 1..Len(frame) |-> FeatureRow(frame[i])]
      y_study == [i \in 1..Len(frame) |-> fillna(frame[i].study_hours, 0)]
      y_score == [i \in 1..Len(frame) |-> fillna(frame[i].productivity_score, 0)]
  IN  IF Len(frame) < 1
      THEN [raised |-> FALSE, models |-> None, error |-> Some(NotEnoughRegression)]
      ELSE IF RegressionFitRaises(frame)
      THEN [raised |-> FALSE, models |-> None, error |-> Some(RegressionError)]
      ELSE [raised |-> FALSE,
            models |-> Some([study_model |-> LinearRegressionFit(features, y_study),
                             score_model |-> LinearRegressionFit(features, y_score)]),
            error |-> None]

\* train_regression(df) = (models, error), raised when the call ends in an
\* exception
train_regression(frame) ==
  LET features == RegressionFeatures(frame).rows
      y_study == [i \in 1..Len(frame) |-> fillna(frame[i].study_hours, 0)]
      y_score == [i \in 1..Len(frame) |-> fillna(frame[i].productivity_score, 0)]
  IN  IF Len(frame) < 2
      THEN [raised |-> FALSE, models |-> None, error |-> Some(NotEnoughRegression)]
      ELSE IF RegressionFitRaises(frame)
      THEN [raised |-> FALSE, models |-> None, error |-> Some(RegressionError)]
      ELSE [raised |-> FALSE,
            models |-> Some([study_model |-> LinearRegressionFit(features, y_study),
                             score_model |-> LinearRegressionFit(features, y_score)]),
            error |-> None]

\* what a call of predict_next ends in: the pair it returns, or an exception
Predicted(study, score) == [raised |-> FALSE, study |-> study, score |-> score]

\* (mutant) predict_next answering 0 for the models it was not given
predict_next_zero(fitted, sleep_hours, study_hours, water_intake, study_pred, score_pred) ==
  IF fitted = None THEN Predicted(Some(0), Some(0))
  ELSE IF ~IsNum(sleep_hours) \/ ~IsNum(study_hours) THEN Predicted(None, None)
  ELSE Predicted(Some(RoundDiv(study_pred, 10)), Some(RoundDiv(score_pred, 10)))

\* (mutant) predict_next without its except clause
predict_next_uncaught(fitted, sleep_hours, study_hours, water_intake, study_pred, score_pred) ==
  IF fitted = None THEN Predicted(None, None)
  ELSE IF ~IsNum(sleep_hours) \/ ~IsNum(study_hours)
  THEN [raised |-> TRUE, study |-> None, score |-> None]
  ELSE Predicted(Some(RoundDiv(study_pred, 10)), Some(RoundDiv(score_pred, 10)))

\* predict_next(models, sleep_hours, study_hours, water_intake) = (study,
\* score) in hundredths.  study_pred and score_pred are what the two models
\* predict for the feature row, in thousandths; predict raises for a
\* feature that is not a number, and the except clause answers (None, None)
predict_next(fitted, sleep_hours, study_hours, water_intake, study_pred, score_pred) ==
  IF fitted = None THEN Predicted(None, None)
  ELSE IF ~IsNum(sleep_hours) \/ ~IsNum(study_hours) THEN Predicted(None, None)
  ELSE Predicted(Some(RoundDiv(study_pred, 10)), Some(RoundDiv(score_pred, 10)))

(***************************************************************************)
(* Operations                                                              *)
(***************************************************************************)
NoAnalytics ==
  /\ heatmap = <<>>
  /\ clusters = <<>>
  /\ clusters_before = <<>>
  /\ models = <<>>
  /\ prediction = <<>>

\* a rerun of the script starts without the values the last run computed
DropAnalytics ==
  /\ heatmap' = <<>>
  /\ clusters' = <<>>
  /\ clusters_before' = <<>>
  /\ models' = <<>>
  /\ prediction' = <<>>

Init ==
  /\ row = [study_hours |-> Absent, sleep_hours |-> Absent, mood |-> Absent]
  /\ result = <<>>
  /\ db = <<>>
  /\ df = <<>>
  /\ weekly = <<>>
  /\ monthly = <<>>
  /\ X = <<>>
  /\ NoAnalytics
  /\ records_count = 0
  /\ n_clusters = <<>>
  /\ np_random = 0

\* the options of the Mood select box
MoodOptions == { <<>>, <<"h","a","p","p","y">>, <<"g","o","o","d">>, <<"o","k">>,
                 <<"t","i","r","e","d">>, <<"s","t","r","e","s","s","e","d">> }

\* Log Activity page, "Save Activity Log": score the entered values, insert
\* the row with that score, rerun the script (which drops every frame of
\* the finished run)
LogActivity(date, sleep_hours, study_hours, mood, activities, limit) ==
  LET prod_score == compute_productivity_score([sleep_hours |-> Num(sleep_hours),
                                                study_hours |-> Num(study_hours),
                                                mood |-> Text(mood)])
  IN  /\ Len(db) < limit
      /\ ~prod_score.raised
      /\ db' = insert_log(db, date, Num(sleep_hours), Num(study_hours),
                          Text(activities), Text(mood), Num(0), Num(0), Num(0),
                          Num(prod_score.value))
      /\ df' = <<>>
      /\ weekly' = <<>>
      /\ monthly' = <<>>
      /\ X' = <<>>
      /\ DropAnalytics
      /\ UNCHANGED <<row, result, countVars, np_random>>

\* float(x) of a stored value succeeds
CanFloat(cell) == cell.k = "num" \/ (cell.k = "text" /\ LooksNumeric(cell.s))

MinId(frame) == CHOOSE a \in {frame[i].id : i \in 1..Len(frame)} :
                   \A i \in 1..Len(frame) : a <= frame[i].id
MaxId(frame) == CHOOSE a \in {frame[i].id : i \in 1..Len(frame)} :
                   \A i \in 1..Len(frame) : a >= frame[i].id

\* Edit Logs page, "Update Log": the form is drawn only for a stored row
\* whose hours convert with float() and whose mood is empty or one of the
\* options; the new score is computed from the submitted values and written
\* in the same UPDATE, then the script reruns
EditLog(log_id, new_sleep, new_study, new_mood) ==
  LET shown == get_dataframe(fetch_logs(db))
      selected == fetch_log_by_id(db, log_id)
      new_prod_score == compute_productivity_score([sleep_hours |-> Num(new_sleep),
                                                    study_hours |-> Num(new_study),
                                                    mood |-> Text(new_mood)])
  IN  /\ ~shown.raised
      /\ Len(shown.frame) > 0
      /\ log_id >= MinId(shown.frame)
      /\ log_id <= MaxId(shown.frame)
      /\ selected # <<>>
      /\ CanFloat(selected[1].sleep_hours)
      /\ CanFloat(selected[1].study_hours)
      /\ (Truthy(selected[1].mood) => selected[1].mood.s \in MoodOptions)
      /\ ~new_prod_score.raised
      /\ db' = update_log(db, log_id, Num(new_sleep), Num(new_study),
                          Text(StrOf(selected[1].activities)), Text(new_mood),
                          Num(new_prod_score.value))
      /\ df' = <<>>
      /\ weekly' = <<>>
      /\ monthly' = <<>>
      /\ X' = <<>>
      /\ DropAnalytics
      /\ UNCHANGED <<row, result, countVars, np_random>>

\* insert_log called with arbitrary arguments (an import, another client of
\* the table); frames computed before the write are dropped
StoreLog(date, sleep_hours, study_hours, activities, mood, water_intake, steps, screen_time_minutes, productivity_score, limit) ==
  /\ Len(db) < limit
  /\ db' = insert_log(db, date, sleep_hours, study_hours, activities, mood,
                      water_intake, steps, screen_time_minutes, productivity_score)
  /\ df' = <<>>
  /\ weekly' = <<>>
  /\ monthly' = <<>>
  /\ X' = <<>>
  /\ DropAnalytics
  /\ UNCHANGED <<row, result, countVars, np_random>>

\* (mutant) get_dataframe saving the scores it backfilled into the table
GetDataframeSavingScores ==
  LET got == get_dataframe(fetch_logs(db))
      saved(r) == (CHOOSE f \in {got.frame[i] : i \in 1..Len(got.frame)} :
                      f.id = r.id).productivity_score
  IN  /\ df' = Some(got)
      /\ db' = IF got.raised THEN db
               ELSE [i \in 1..Len(db) |-> [db[i] EXCEPT !.productivity_score = saved(db[i])]]
      /\ weekly' = <<>>
      /\ monthly' = <<>>
      /\ X' = <<>>
      /\ DropAnalytics
      /\ UNCHANGED <<row, result, countVars, np_random>>

\* df = get_dataframe(): reads the table, writes nothing
GetDataframe ==
  /\ df' = Some(get_dataframe(fetch_logs(db)))
  /\ weekly' = <<>>
  /\ monthly' = <<>>
  /\ X' = <<>>
  /\ DropAnalytics
  /\ UNCHANGED <<row, result, db, countVars, np_random>>

HaveFrame == df # <<>> /\ ~df[1].raised

WeeklySummary ==
  /\ HaveFrame
  /\ weekly' = Some(weekly_summary(df[1].frame))
  /\ UNCHANGED <<row, result, db, df, monthly, X, analyticsVars, countVars, np_random>>

MonthlySummary ==
  /\ HaveFrame
  /\ monthly' = Some(monthly_summary(df[1].frame))
  /\ UNCHANGED <<row, result, db, df, weekly, X, analyticsVars, countVars, np_random>>

\* models, reg_err = train_regression(df); X is the feature matrix it built
TrainRegression ==
  /\ HaveFrame
  /\ X' = Some(RegressionFeatures(df[1].frame))
  /\ models' = Some(train_regression(df[1].frame))
  /\ prediction' = <<>>
  /\ UNCHANGED <<row, result, db, df, weekly, monthly, heatmap, clusters, clusters_before, countVars, np_random>>

\* (mutant) activity_heatmap_data adding its weekday column to the frame it
\* was given instead of to a copy
ActivityHeatmapInPlace ==
  LET WithWeekday(r) == [f \in DOMAIN r \cup {"weekday"} |->
                           IF f = "weekday" THEN Text(day_name(r.date)) ELSE r[f]]
  IN  /\ HaveFrame
      /\ heatmap' = Some(activity_heatmap_data(df[1].frame))
      /\ df' = Some([df[1] EXCEPT !.frame = [i \in 1..Len(df[1].frame) |->
                                               WithWeekday(df[1].frame[i])]])
      /\ UNCHANGED <<row, result, db, weekly, monthly, X, clusters, clusters_before, models, prediction, countVars, np_random>>

\* heat = activity_heatmap_data(df)
ActivityHeatmap ==
  /\ HaveFrame
  /\ heatmap' = Some(activity_heatmap_data(df[1].frame))
  /\ UNCHANGED <<row, result, db, df, weekly, monthly, X, clusters, clusters_before, models, prediction, countVars, np_random>>

\* (mutant) the clustering left unseeded: the fit draws from the generator
\* of the process, which the draw moves on
GetClustersUnseeded ==
  /\ HaveFrame
  /\ clusters_before' = clusters
  /\ clusters' = Some(ClustersDrawnFrom(df[1].frame, np_random))
  /\ np_random' = (np_random + 1) % 4
  /\ UNCHANGED <<row, result, db, df, weekly, monthly, X, heatmap, models, prediction, countVars>>

\* clusters, km_model, cluster_err = get_clusters(df); clusters_before is
\* what the call before it returned for the same frame
GetClusters ==
  /\ HaveFrame
  /\ clusters_before' = clusters
  /\ clusters' = Some(get_clusters(df[1].frame))
  /\ UNCHANGED <<row, result, db, df, weekly, monthly, X, heatmap, models, prediction, countVars, np_random>>

\* predict_next(models, sleep_hours, study_hours=last_study) on what
\* train_regression returned
PredictNext(sleep_hours, study_pred, score_pred) ==
  /\ HaveFrame
  /\ models # <<>>
  /\ LET frame == df[1].frame
         last_study == IF Len(frame) > 0 THEN frame[Len(frame)].study_hours ELSE Num(0)
     IN  prediction' = Some(predict_next(models[1].models, sleep_hours, last_study, None,
                                         study_pred, score_pred))
  /\ UNCHANGED <<row, result, db, df, weekly, monthly, X, heatmap, clusters, clusters_before, models, countVars, np_random>>

\* what is drawn below get_clusters, train_regression and
\* activity_heatmap_data in one run of the Analytics page, ML Insights tab
\* (lines 592-661): the prediction only when the models were fitted and the
\* button was pressed
RenderedPrediction(frame, fitted, button, exp_sleep, study_pred, score_pred) ==
  LET last_study == IF Len(frame) > 0 THEN frame[Len(frame)].study_hours ELSE Num(0)
  IN  IF fitted.error = None /\ button
      THEN Some(predict_next(fitted.models, exp_sleep, last_study, None,
                             study_pred, score_pred))
      ELSE <<>>

\* (mutant) a run of the page that stops at the first warning it shows
RenderAnalyticsStoppingAtWarning(button, exp_sleep, study_pred, score_pred) ==
  LET got == get_dataframe(fetch_logs(db))
      frame == got.frame
      clustered == get_clusters(frame)
      fitted == train_regression(frame)
      drawn == ~got.raised /\ Len(frame) > 0
      past_clusters == drawn /\ clustered.error = None
      past_models == past_clusters /\ fitted.error = None
  IN  /\ df' = Some(got)
      /\ weekly' = <<>>
      /\ monthly' = <<>>
      /\ clusters_before' = <<>>
      /\ clusters' = IF drawn THEN Some(clustered) ELSE <<>>
      /\ models' = IF past_clusters THEN Some(fitted) ELSE <<>>
      /\ X' = IF past_clusters THEN Some(RegressionFeatures(frame)) ELSE <<>>
      /\ prediction' = IF past_clusters
                       THEN RenderedPrediction(frame, fitted, button, exp_sleep,
                                               study_pred, score_pred)
                       ELSE <<>>
      /\ heatmap' = IF past_models THEN Some(activity_heatmap_data(frame)) ELSE <<>>
      /\ UNCHANGED <<row, result, db, countVars, np_random>>

\* one run of the Analytics page (lines 354-661): df = refresh_df(); a
\* warning alone for an empty df; else get_clusters, train_regression and
\* activity_heatmap_data are called one after the other on df, each result
\* drawn or replaced by its message, and predict_next is called when the
\* models were fitted and the button was pressed.  A raise of get_dataframe
\* ends the run.
RenderAnalytics(button, exp_sleep, study_pred, score_pred) ==
  LET got == get_dataframe(fetch_logs(db))
      frame == got.frame
      fitted == train_regression(frame)
      drawn == ~got.raised /\ Len(frame) > 0
  IN  /\ df' = Some(got)
      /\ weekly' = <<>>
      /\ monthly' = <<>>
      /\ clusters_before' = <<>>
      /\ clusters' = IF drawn THEN Some(get_clusters(frame)) ELSE <<>>
      /\ models' = IF drawn THEN Some(fitted) ELSE <<>>
      /\ X' = IF drawn THEN Some(RegressionFeatures(frame)) ELSE <<>>
      /\ prediction' = IF drawn
                       THEN RenderedPrediction(frame, fitted, button, exp_sleep,
                                               study_pred, score_pred)
                       ELSE <<>>
      /\ heatmap' = IF drawn THEN Some(activity_heatmap_data(frame)) ELSE <<>>
      /\ UNCHANGED <<row, result, db, countVars, np_random>>

(***************************************************************************)
(* The application: Log Activity, Edit Logs and the rollups                *)
(***************************************************************************)
\* dates entered: the Monday and the Sunday of one week, a Monday two
\* weeks on (two empty weeks between), and a month end two months on (an
\* empty February between)
AppDates ==
  { IsoDate(2024, 1, 1), IsoDate(2024, 1, 7), IsoDate(2024, 1, 22),
    IsoDate(2024, 3, 31) }

\* (sleep_hours, study_hours, mood) entered
AppEntries ==
  { <<750, 200, <<"h","a","p","p","y">>>>,
    <<400, 1300, <<>>>> }

Next ==
  \/ \E date \in AppDates, e \in AppEntries :
        LogActivity(date, e[1], e[2], e[3], <<>>, MaxLogs)
  \/ \E log_id \in 1..MaxLogs, e \in AppEntries : EditLog(log_id, e[1], e[2], e[3])
  \/ GetDataframe
  \/ WeeklySummary
  \/ MonthlySummary

Spec == Init /\ [][Next]_vars

EditDates == { IsoDate(2024, 1, 1), IsoDate(2024, 1, 7) }

\* (sleep_hours, study_hours, mood) submitted on the Edit Logs form: the
\* values a log can be entered with, and values only an edit writes
EditEntries == AppEntries \cup { <<600, 600, <<"t","i","r","e","d">>>> }

\* submissions of the two pages in any order; each submission is one run of
\* the script, whichever session sent it
NextEdit ==
  \/ \E date \in EditDates, e \in AppEntries :
        LogActivity(date, e[1], e[2], e[3], <<>>, MaxLogs)
  \/ \E log_id \in 1..MaxLogs, e \in EditEntries : EditLog(log_id, e[1], e[2], e[3])

SpecEdit == Init /\ [][NextEdit]_vars

(***************************************************************************)
(* The normalizer over rows written with arbitrary values                  *)
(***************************************************************************)
NotANumber == Text(<<"a","b","c">>)

\* (sleep_hours, study_hours, mood) as written
RawHours ==
  { <<Num(600), Num(1300), Text(<<"H","a","p","p","y">>)>>,
    <<Num(600), Num(1300), Null>>,
    <<Null, NotANumber, Null>>,
    <<NotANumber, Null, Text(<<"H","a","p","p","y">>)>> }

\* (water_intake, steps, screen_time_minutes) as written
RawOptionals ==
  { <<Num(150), Null, NotANumber>>,
    <<Null, NotANumber, Text(<<"3","0">>)>>,
    <<NotANumber, Num(500000), Null>> }

RawScores == { Num(999), Null, Text(<<"n","/","a">>) }

NextNorm ==
  \/ \E h \in RawHours, o \in RawOptionals, s \in RawScores :
        StoreLog(IsoDate(2024, 1, 1), h[1], h[2], Text(<<>>), h[3], o[1], o[2], o[3], s,
                 MaxRawLogs)
  \/ GetDataframe
  \/ TrainRegression

SpecNorm == Init /\ [][NextNorm]_vars

\* date texts as written through insert_log: a calendar day, and a text of the
\* same shape that names no day (month 13)
RawDates == { IsoDate(2024, 1, 1), IsoDate(2024, 13, 1) }

\* productivity_score as written: absent, or a text that is not a number
RawMissingScores == { Null, Text(<<"n","/","a">>) }

\* raw records with absent and malformed fields, read by the Normalizer and
\* the three Aggregator functions
NextRaw ==
  \/ \E date \in RawDates, h \in RawHours, s \in RawMissingScores :
        StoreLog(date, h[1], h[2], Null, h[3], Null, NotANumber, Null, s, MaxRawLogs)
  \/ GetDataframe
  \/ WeeklySummary
  \/ MonthlySummary
  \/ ActivityHeatmap

SpecRaw == Init /\ [][NextRaw]_vars

(***************************************************************************)
(* The scorer as a pure function: one call on one dict                     *)
(***************************************************************************)
ScoreHours == { Num(50 * h) : h \in 0..MaxHalfHours }

ScoreMoods ==
  { Absent, Null, Text(<<>>),
    Text(<<"h","a","p","p","y">>), Text(<<"H","a","p","p","y">>),
    Text(<<"g","o","o","d">>), Text(<<"G","R","E","A","T">>),
    Text(<<"e","n","e","r","g","i","z","e","d">>),
    Text(<<"o","k">>), Text(<<"t","i","r","e","d">>),
    Text(<<"g","o","o","d","i","s","h">>) }

ScoreRows ==
  [study_hours : ScoreHours \cup {Absent, Null},
   sleep_hours : ScoreHours \cup {Absent, Null},
   mood : ScoreMoods]

InitScore ==
  /\ row \in ScoreRows
  /\ result = <<>>
  /\ db = <<>>
  /\ df = <<>>
  /\ weekly = <<>>
  /\ monthly = <<>>
  /\ X = <<>>
  /\ NoAnalytics
  /\ records_count = 0
  /\ n_clusters = <<>>
  /\ np_random = 0

\* result = compute_productivity_score(row)
CallScore ==
  /\ result = <<>>
  /\ result' = Some(compute_productivity_score(row))
  /\ UNCHANGED <<row, db, df, weekly, monthly, X, analyticsVars, countVars, np_random>>

NextScore == CallScore

SpecScore == InitScore /\ [][NextScore]_vars

(***************************************************************************)
(* The Analytics page over logs entered in the application                 *)
(***************************************************************************)
\* (sleep_hours, study_hours, mood) entered; the scores are 9.5, 1.64, 3.14
\* 2.39 and 4.39, the three without a mood on one line at equal distances
MLEntries ==
  { <<750, 800, <<"h","a","p","p","y">>>>,
    <<300, 100, <<>>>>,
    <<300, 400, <<>>>>,
    <<300, 250, <<>>>>,
    <<300, 250, <<"h","a","p","p","y">>>> }

\* the sleep passed to predict_next: the slider's value, or None from another
\* caller
PredictSleeps == { Num(700), Null }

\* (study, score) the fitted models predict, in thousandths
Predictions == { <<2004, 6515>>, <<2005, 6505>> }

NextML ==
  \/ \E e \in MLEntries :
        LogActivity(IsoDate(2024, 1, 1), e[1], e[2], e[3], <<"r","u","n">>, MaxPoints)
  \/ StoreLog(IsoDate(2024, 1, 1), Inf, Num(200), Text(<<>>), Null, Null, Null, Null,
              Num(650), MaxPoints)
  \/ GetDataframe
  \/ GetClusters
  \/ TrainRegression
  \/ \E s \in PredictSleeps, p \in Predictions : PredictNext(s, p[1], p[2])

SpecML == Init /\ [][NextML]_vars

(***************************************************************************)
(* Every computation of the pages over an empty or nearly empty store      *)
(***************************************************************************)
NextPage ==
  \/ \E e \in AppEntries :
        LogActivity(IsoDate(2024, 1, 1), e[1], e[2], e[3], <<"r","u","n">>, MaxPageLogs)
  \/ GetDataframe
  \/ WeeklySummary
  \/ MonthlySummary
  \/ ActivityHeatmap
  \/ GetClusters
  \/ TrainRegression
  \/ \E s \in PredictSleeps, p \in Predictions : PredictNext(s, p[1], p[2])

SpecPage == Init /\ [][NextPage]_vars

\* the slider of the ML Insights tab at its default
SliderSleeps == { Num(700) }

\* (water_intake, productivity_score) written with one of them infinite
InfiniteWrites == { <<Inf, Num(650)>>, <<Null, Inf>> }

\* logs entered on the Log Activity page, records written with an infinite
\* water_intake or productivity_score, and whole runs of the Analytics page
NextRender ==
  \/ \E e \in AppEntries :
        LogActivity(IsoDate(2024, 1, 1), e[1], e[2], e[3], <<"r","u","n">>, MaxPageLogs)
  \/ \E w \in InfiniteWrites :
        StoreLog(IsoDate(2024, 1, 1), Num(750), Num(200), Text(<<"r","u","n">>),
                 Text(<<"h","a","p","p","y">>), w[1], Null, Null, w[2], MaxPageLogs)
  \/ \E button \in BOOLEAN, s \in SliderSleeps, p \in Predictions :
        RenderAnalytics(button, s, p[1], p[2])

SpecRender == Init /\ [][NextRender]_vars

(***************************************************************************)
(* The activity heatmap over logs with activities                          *)
(***************************************************************************)
\* two Mondays and a Sunday
ActivityDates == { IsoDate(2024, 1, 1), IsoDate(2024, 1, 7), IsoDate(2024, 1, 8) }

\* the Activities text area: left empty, separators and blanks only, and
\* keywords in mixed case with blanks around them
ActivityTexts ==
  { <<>>,
    <<" ", ";", ",", " ">>,
    <<"R","u","n",","," ","r","u","n",";","G","Y","M">>,
    <<"g","y","m"," ",",","y","o","g","a">> }

NextActivity ==
  \/ \E date \in ActivityDates, a \in ActivityTexts :
        LogActivity(date, 750, 200, <<"h","a","p","p","y">>, a, MaxActivityLogs)
  \/ \E date \in ActivityDates :
        StoreLog(date, Num(750), Num(200), Null, Null, Null, Null, Null, Num(650),
                 MaxActivityLogs)
  \/ GetDataframe
  \/ ActivityHeatmap

SpecActivity == Init /\ [][NextActivity]_vars

(***************************************************************************)
(* The number of clusters as a function of the number of logs              *)
(***************************************************************************)
InitCount ==
  /\ row = [study_hours |-> Absent, sleep_hours |-> Absent, mood |-> Absent]
  /\ result = <<>>
  /\ db = <<>>
  /\ df = <<>>
  /\ weekly = <<>>
  /\ monthly = <<>>
  /\ X = <<>>
  /\ NoAnalytics
  /\ records_count \in 0..MaxRecordCount
  /\ n_clusters = <<>>
  /\ np_random = 0

\* lines 13-17 on a frame of records_count rows: None when get_clusters
\* returns before it asks for clusters, else the k it passes to KMeans
CallClusterCount ==
  /\ n_clusters = <<>>
  /\ n_clusters' = Some(IF records_count < 3 THEN None
                        ELSE Some(ClusterCount(records_count)))
  /\ UNCHANGED <<row, result, db, df, weekly, monthly, X, analyticsVars, records_count, np_random>>

NextCount == CallClusterCount

SpecCount == InitCount /\ [][NextCount]_vars

(***************************************************************************)
(* Claims about the scorer (checked under SpecScore)                       *)
(***************************************************************************)
\* the hours a cell stands for when it is a number, 0 when the key is absent
HoursOf(cell) == IF cell.k = "num" THEN cell.n ELSE 0

\* s, compared case-insensitively, is the lower-case word w
SameWordIgnoringCase(s, w) ==
  /\ Len(s) = Len(w)
  /\ \A i \in 1..Len(s) :
       \/ s[i] = w[i]
       \/ \E j \in 1..Len(UpperChars) : s[i] = UpperChars[j] /\ w[i] = LowerChars[j]

HasBonusMood(r) ==
  /\ r.mood.k = "text"
  /\ \E w \in BonusMoods : SameWordIgnoringCase(r.mood.s, w)

\* 0.6*(min(study,12)/12*10) + 0.35*max(0, 10 - |7.5 - sleep|*1.5) + 2.0*bonus,
\* in 1/1200000 of a point
ExactScore(r) ==
  LET H == HoursOf(r.study_hours)
      S == HoursOf(r.sleep_hours)
      capped == IF H < 1200 THEN H ELSE 1200
      dev == IF S < 750 THEN 750 - S ELSE S - 750
      sleepc == IF 120000 - 180 * dev > 0 THEN 120000 - 180 * dev ELSE 0
  IN  6000 * capped + 35 * sleepc + (IF HasBonusMood(r) THEN 2400000 ELSE 0)

NumericHours(r) == r.study_hours.k # "null" /\ r.sleep_hours.k # "null"

\* C1: for numeric sleep_hours and study_hours and every mood, the returned
\* score is 0.6*(min(study,12)/12*10) + 0.35*max(0, 10 - |7.5 - sleep|*1.5)
\* + 2.0*mood_bonus rounded to the nearest hundredth, where mood_bonus is 1
\* exactly when the mood is, ignoring case, good, great, happy or energized
\* (0 for an empty or absent mood).
C1_ScoreFormula ==
  (result # <<>> /\ NumericHours(row)) =>
    /\ ~result[1].raised
    /\ Abs(result[1].value * 12000 - ExactScore(row)) <= 6000

C1_Witness ==
  /\ result # <<>>
  /\ row.mood = Text(<<"G","R","E","A","T">>)
  /\ row.study_hours = Num(1300)
  /\ row.sleep_hours = Num(600)
  /\ result[1] = Returned(1071)

\* C2 as stated: for sleep_hours and study_hours in 0..24 the score lies in
\* [0, 10.7].
C2_RangeAsStated ==
  (result # <<>> /\ IsNum(row.study_hours) /\ IsNum(row.sleep_hours)
     /\ row.study_hours.n <= 2400 /\ row.sleep_hours.n <= 2400) =>
    /\ ~result[1].raised
    /\ result[1].value >= 0
    /\ result[1].value <= 1070

\* C2 (amended): for sleep_hours and study_hours in 0..24 and every mood the
\* score lies in [0, 11.5]; 11.5 is attained (study >= 12, sleep = 7.5 and a
\* bonus mood).
C2_Range ==
  (result # <<>> /\ NumericHours(row)) =>
    /\ ~result[1].raised
    /\ result[1].value >= 0
    /\ result[1].value <= 1150

C2_Witness ==
  /\ result # <<>>
  /\ row.study_hours = Num(1200)
  /\ row.sleep_hours = Num(750)
  /\ row.mood = Text(<<"h","a","p","p","y">>)
  /\ result[1] = Returned(1150)

MissingOrZero(cell) == cell.k \in {"absent", "null"} \/ cell = Num(0)

\* C3 as stated: when study_hours or sleep_hours is missing (key not there,
\* or there with no value) or zero, the call does not raise; the missing
\* field contributes its component's floor 0 and a score is returned.
C3_MissingNeverRaises ==
  (result # <<>>
     /\ (MissingOrZero(row.study_hours) \/ IsNum(row.study_hours))
     /\ (MissingOrZero(row.sleep_hours) \/ IsNum(row.sleep_hours))
     /\ (MissingOrZero(row.study_hours) \/ MissingOrZero(row.sleep_hours))) =>
    /\ ~result[1].raised
    /\ Abs(result[1].value * 12000 - ExactScore(row)) <= 6000

(***************************************************************************)
(* Claims about the normalizer (checked under SpecNorm)                    *)
(***************************************************************************)
\* the stored row that frame row f was made from
StoredRow(f) == db[CHOOSE i \in 1..Len(db) : db[i].id = f.id]

\* the hours a stored cell is normalized to: itself when it is a number,
\* 0.0 when it is NULL or text that is no number
DefaultedHours(cell) == IF cell.k = "num" THEN cell.n ELSE 0

FrameReady == df # <<>> /\ ~df[1].raised
Frame == df[1].frame

\* C4: after get_dataframe every record has a score: a stored numeric score
\* is kept as it is, and an absent or non-numeric stored score is replaced by
\* the scorer's value for the record's defaulted sleep_hours and study_hours
\* and its mood.
C4_ScoreBackfill ==
  df # <<>> =>
    /\ ~df[1].raised
    /\ Len(Frame) = Len(db)
    /\ \A i \in 1..Len(Frame) :
         LET f == Frame[i]
             r == StoredRow(f)
             exact == ExactScore([study_hours |-> Num(DefaultedHours(r.study_hours)),
                                  sleep_hours |-> Num(DefaultedHours(r.sleep_hours)),
                                  mood |-> r.mood])
         IN  /\ f.productivity_score.k = "num"
             /\ r.productivity_score.k = "num" => f.productivity_score = r.productivity_score
             /\ r.productivity_score.k # "num" =>
                  Abs(f.productivity_score.n * 12000 - exact) <= 6000

C4_Witness ==
  /\ FrameReady
  /\ Len(Frame) = 2
  /\ StoredRow(Frame[1]).productivity_score = Num(999)
  /\ Frame[1].productivity_score = Num(999)
  /\ Frame[1].sleep_hours = Num(0)
  /\ StoredRow(Frame[2]).productivity_score = Text(<<"n","/","a">>)
  /\ StoredRow(Frame[2]).sleep_hours = NotANumber
  /\ StoredRow(Frame[2]).mood = Text(<<"H","a","p","p","y">>)
  /\ Frame[2].productivity_score = Num(200)

OptionalColumns == {"water_intake", "steps", "screen_time_minutes"}

\* C5: in the Dataset an absent or unparsable sleep_hours or study_hours is
\* 0.0, while an absent or unparsable water_intake, steps or
\* screen_time_minutes has no value (it is not zero); numbers are kept.
C5_Defaulting ==
  df # <<>> =>
    /\ ~df[1].raised
    /\ \A i \in 1..Len(Frame) :
         LET f == Frame[i]
             r == StoredRow(f)
         IN  /\ \A c \in {"sleep_hours", "study_hours"} :
                  f[c] = (IF r[c].k = "num" THEN r[c] ELSE Num(0))
             /\ \A c \in OptionalColumns :
                  f[c] = (IF r[c].k = "num" THEN r[c] ELSE NaN)

C5_Witness ==
  /\ FrameReady
  /\ Len(Frame) = 2
  /\ StoredRow(Frame[1]).sleep_hours = Null
  /\ StoredRow(Frame[1]).study_hours = NotANumber
  /\ Frame[1].sleep_hours = Num(0)
  /\ Frame[1].study_hours = Num(0)
  /\ StoredRow(Frame[1]).water_intake = Null
  /\ Frame[1].water_intake = NaN
  /\ Frame[1].steps = NaN
  /\ Frame[1].screen_time_minutes = Num(3000)
  /\ StoredRow(Frame[2]).water_intake = NotANumber
  /\ Frame[2].water_intake = NaN
  /\ Frame[2].screen_time_minutes = NaN

\* C6 as stated: every record of the Dataset get_dataframe returns has
\* sleep_hours, study_hours and water_intake as numbers, a missing or
\* unparsable value being 0.0.
C6_WaterDefaultedInDataset ==
  df # <<>> =>
    /\ ~df[1].raised
    /\ \A i \in 1..Len(Frame) :
         \A c \in {"sleep_hours", "study_hours", "water_intake"} :
            Frame[i][c] = Num(DefaultedHours(StoredRow(Frame[i])[c]))

\* C6 (amended): every record of the Dataset has sleep_hours and study_hours
\* as numbers, a missing or unparsable value being 0.0; water_intake is a
\* number or missing in the Dataset, and it is in the feature matrix of
\* train_regression that a missing water_intake is 0.0, so that every
\* feature of every record is a number.
C6_WaterDefaultedInFeatures ==
  /\ df # <<>> =>
       \A i \in 1..Len(Frame) :
          /\ \A c \in {"sleep_hours", "study_hours"} :
               Frame[i][c] = Num(DefaultedHours(StoredRow(Frame[i])[c]))
          /\ Frame[i].water_intake.k \in {"num", "nan"}
  /\ (X # <<>> /\ ~X[1].insufficient) =>
       /\ Len(X[1].rows) = Len(Frame)
       /\ \A i \in 1..Len(Frame) :
            X[1].rows[i] =
              << Num(DefaultedHours(StoredRow(Frame[i]).sleep_hours)),
                 Num(DefaultedHours(StoredRow(Frame[i]).study_hours)),
                 Num(DefaultedHours(StoredRow(Frame[i]).water_intake)) >>

C6_Witness ==
  /\ FrameReady
  /\ X # <<>>
  /\ ~X[1].insufficient
  /\ StoredRow(Frame[1]).water_intake = Null
  /\ Frame[1].water_intake = NaN
  /\ X[1].rows[1] = <<Num(600), Num(1300), Num(0)>>
  /\ StoredRow(Frame[2]).water_intake = Num(150)
  /\ X[1].rows[2] = <<Num(0), Num(0), Num(150)>>

InWeekEnding(sunday) ==
  SelectSeq(Frame, LAMBDA r : r.date.ord >= sunday.ord - 6 /\ r.date.ord <= sunday.ord)

\* the records of the Dataset dated in the calendar month of `day`
InMonthOf(day) ==
  SelectSeq(Frame, LAMBDA r : r.date.y = day.y /\ r.date.m = day.m)

\* C8 as stated: a weekly or monthly bucket is emitted only for a week or
\* month that holds at least one record.
C8_NoEmptyBuckets ==
  /\ weekly # <<>> =>
       \A k \in 1..Len(weekly[1]) : Len(InWeekEnding(weekly[1][k].date)) > 0
  /\ monthly # <<>> =>
       \A k \in 1..Len(monthly[1]) : Len(InMonthOf(monthly[1][k].date)) > 0

\* v is the mean of the cells rounded to the nearest hundredth (no value for
\* no cells)
IsRoundedMean(v, cells) ==
  IF Len(cells) = 0 THEN v = NaN
  ELSE /\ v.k = "num"
       /\ 2 * Abs(v.n * Len(cells) - SumCells(cells)) <= Len(cells)

\* the bucket reports mean sleep, summed study and mean score of `members`
ReportsOver(bucket, members) ==
  /\ IsRoundedMean(bucket.sleep_hours, Column(members, "sleep_hours"))
  /\ bucket.study_hours = Num(SumCells(Column(members, "study_hours")))
  /\ IsRoundedMean(bucket.productivity_score, Column(members, "productivity_score"))

\* C9: every record falls in exactly one bucket (weekly: the Monday-to-Sunday
\* week, labelled by its Sunday; monthly: the calendar month), and every
\* bucket reports the mean sleep_hours, the sum of study_hours and the mean
\* productivity_score of exactly the records in it, rounded to 2 decimals.
C9_BucketsAggregate ==
  /\ weekly # <<>> =>
       /\ \A k \in 1..Len(weekly[1]) :
            /\ (weekly[1][k].date.ord + 3) % 7 = 6
            /\ ReportsOver(weekly[1][k], InWeekEnding(weekly[1][k].date))
       /\ \A i \in 1..Len(Frame) :
            Cardinality({k \in 1..Len(weekly[1]) :
                           /\ Frame[i].date.ord >= weekly[1][k].date.ord - 6
                           /\ Frame[i].date.ord <= weekly[1][k].date.ord}) = 1
  /\ monthly # <<>> =>
       /\ \A k \in 1..Len(monthly[1]) :
            ReportsOver(monthly[1][k], InMonthOf(monthly[1][k].date))
       /\ \A i \in 1..Len(Frame) :
            Cardinality({k \in 1..Len(monthly[1]) :
                           /\ Frame[i].date.y = monthly[1][k].date.y
                           /\ Frame[i].date.m = monthly[1][k].date.m}) = 1

\* a Monday and a Sunday record share the week labelled by that Sunday, two
\* empty weeks follow, and the month's mean needs rounding
C9_Witness ==
  /\ weekly # <<>>
  /\ monthly # <<>>
  /\ Len(Frame) = 3
  /\ Frame[1].date.d = 1
  /\ Frame[2].date.d = 7
  /\ Frame[3].date.d = 22
  /\ Len(weekly[1]) = 4
  /\ weekly[1][1].date = [y |-> 2024, m |-> 1, d |-> 7, ord |-> 19729]
  /\ weekly[1][1].study_hours = Num(1500)
  /\ weekly[1][1].productivity_score = Num(708)
  /\ Len(monthly[1]) = 1
  /\ monthly[1][1].date = [y |-> 2024, m |-> 1, d |-> 31, ord |-> 19753]
  /\ monthly[1][1].sleep_hours = Num(517)

RollupStudyTotal(rollup) == SumCells(Column(rollup, "study_hours"))

IsMessage(error) == error # None /\ error[1] # ""

\* C11: while the table holds no record, every component answers with its
\* explicit empty or unavailable result and none raises: get_dataframe,
\* weekly_summary, monthly_summary and activity_heatmap_data return an empty
\* table, get_clusters returns no labels and a message, train_regression
\* returns no models and a message, and predict_next on those absent models
\* returns (None, None)
C11_EmptyStore ==
  db = <<>> =>
    /\ df # <<>> => (~df[1].raised /\ df[1].frame = <<>>)
    /\ weekly # <<>> => weekly[1] = <<>>
    /\ monthly # <<>> => monthly[1] = <<>>
    /\ heatmap # <<>> => heatmap[1] = EmptyDataFrame
    /\ clusters # <<>> =>
         (~clusters[1].raised /\ clusters[1].labels = None /\ IsMessage(clusters[1].error))
    /\ models # <<>> =>
         (~models[1].raised /\ models[1].models = None /\ IsMessage(models[1].error))
    /\ prediction # <<>> => prediction[1] = Predicted(None, None)

\* every component has been run over the empty table
C11_Witness ==
  /\ db = <<>>
  /\ df # <<>>
  /\ weekly # <<>>
  /\ monthly # <<>>
  /\ heatmap # <<>>
  /\ clusters # <<>>
  /\ models # <<>>
  /\ prediction # <<>>


(***************************************************************************)
(* Claims about the activity heatmap (checked under SpecActivity)          *)
(***************************************************************************)
Separators == {",", ";"}

\* positions a..b of s are one keyword as written: a longest stretch without
\* a separator
IsPiece(s, a, b) ==
  /\ a <= b
  /\ \A i \in a..b : s[i] \notin Separators
  /\ a = 1 \/ s[a - 1] \in Separators
  /\ b = Len(s) \/ s[b + 1] \in Separators

\* t is the stretch a..b of s with the blanks around it removed, in lower case
IsTokenOf(t, s, a, b) ==
  \E c \in a..b, d \in a..b :
     /\ c <= d
     /\ s[c] \notin Whitespace
     /\ s[d] \notin Whitespace
     /\ \A i \in a..b : (i < c \/ i > d) => s[i] \in Whitespace
     /\ t = lower(SubSeq(s, c, d))

\* how often the token t is written in the activities of the record r; a
\* record with no activities text has no token
Occurrences(t, r) ==
  IF r.activities.k # "text" THEN 0
  ELSE LET s == r.activities.s
       IN  Cardinality({p \in (1..Len(s)) \X (1..Len(s)) :
                          IsPiece(s, p[1], p[2]) /\ IsTokenOf(t, s, p[1], p[2])})

\* the occurrences of t over the records of the frame dated on the weekday w
RECURSIVE OccurrencesOn(_, _, _)
OccurrencesOn(t, w, frame) ==
  IF frame = <<>> THEN 0
  ELSE (IF day_name(Head(frame).date) = w THEN Occurrences(t, Head(frame)) ELSE 0)
       + OccurrencesOn(t, w, Tail(frame))

HeatmapReady == HaveFrame /\ heatmap # <<>>

\* the tokens written in the activities texts of the workload
WrittenTokens ==
  { <<"r","u","n">>, <<"g","y","m">>, <<"y","o","g","a">>, <<"n","o","n","e">> }

\* C12: in the table of activity_heatmap_data the cell of the token t and
\* the weekday w is the number of occurrences of t among the tokens of the
\* records dated on w (the activities text split on ',' and ';', each piece
\* trimmed and lowercased, empty pieces dropped); a token that is written has
\* a row, and no two rows differ only in case or surrounding blanks
C12_CellCounts ==
  HeatmapReady =>
    LET table == heatmap[1]
    IN  /\ \A i \in 1..Len(table.index), j \in 1..Len(table.columns) :
             table.values[i][j] = OccurrencesOn(table.index[i], table.columns[j], Frame)
        /\ \A t \in WrittenTokens, j \in 1..7 :
             OccurrencesOn(t, weekday_order[j], Frame) > 0 =>
               \E i \in 1..Len(table.index) : table.index[i] = t
        /\ \A i \in 1..Len(table.index), j \in 1..Len(table.index) :
             lower(strip(table.index[i])) = lower(strip(table.index[j])) => i = j

\* the activities of a record are empty: absent, the empty text, or
\* separators and blanks only
EmptyActivities(r) ==
  \/ r.activities.k # "text"
  \/ \A i \in 1..Len(r.activities.s) : r.activities.s[i] \in Separators \cup Whitespace

\* C13: a record whose activities are empty adds no row and no count (the
\* table is the table of the other records), and when no record yields a
\* token the function returns the explicitly empty table
C13_EmptyAddsNothing ==
  HeatmapReady =>
    /\ heatmap[1] = activity_heatmap_data(SelectSeq(Frame, LAMBDA r : ~EmptyActivities(r)))
    /\ (\A i \in 1..Len(Frame) : EmptyActivities(Frame[i])) => heatmap[1] = EmptyDataFrame

\* the place of a weekday in the week, Monday first
WeekdayIndex(w) == CHOOSE j \in 1..7 : weekday_order[j] = w

\* C14: the table has one column for every weekday on which a token occurs
\* and none for a weekday no record is dated on, its columns are in
\* Monday-to-Sunday order, and every cell of a token and a weekday without
\* an occurrence of that token holds 0
C14_Columns ==
  HeatmapReady =>
    LET table == heatmap[1]
    IN  /\ \A j \in 1..Len(table.columns) :
             \E i \in 1..Len(Frame) : day_name(Frame[i].date) = table.columns[j]
        /\ \A t \in WrittenTokens, w \in 1..7 :
             OccurrencesOn(t, weekday_order[w], Frame) > 0 =>
               \E j \in 1..Len(table.columns) : table.columns[j] = weekday_order[w]
        /\ \A j \in 1..Len(table.columns), k \in 1..Len(table.columns) :
             j < k => WeekdayIndex(table.columns[j]) < WeekdayIndex(table.columns[k])
        /\ \A i \in 1..Len(table.index), j \in 1..Len(table.columns) :
             OccurrencesOn(table.index[i], table.columns[j], Frame) = 0 =>
               table.values[i][j] = 0

(***************************************************************************)
(* Claims about the clustering (checked under SpecML and SpecCount)        *)
(***************************************************************************)
ClustersReady == HaveFrame /\ clusters # <<>>

\* C15: get_clusters on fewer than 3 records returns no labels and no model
\* (so no partition) together with the insufficient-data message
C15_TooFewRecords ==
  (ClustersReady /\ Len(Frame) < 3) =>
    /\ clusters[1].labels = None
    /\ clusters[1].model = None
    /\ clusters[1].error = Some("Not enough data to form clusters (need at least 3 logs).")

\* get_clusters has been called on two records
C15_Witness == ClustersReady /\ Len(Frame) = 2

Clamp(v, lo, hi) == IF v < lo THEN lo ELSE IF v > hi THEN hi ELSE v

\* C16: for n >= 3 records the number of clusters get_clusters asks for is
\* clamp(n // 3, 2, 4): 2 for n in 3..8, 3 for n in 9..11, 4 for n >= 12
C16_ClusterCount ==
  (n_clusters # <<>> /\ records_count >= 3) =>
    /\ n_clusters[1] = Some(Clamp(records_count \div 3, 2, 4))
    /\ records_count \in 3..8 => n_clusters[1] = Some(2)
    /\ records_count \in 9..11 => n_clusters[1] = Some(3)
    /\ records_count >= 12 => n_clusters[1] = Some(4)

\* the number of clusters has been asked for 13 records
C16_Witness == records_count = 13 /\ n_clusters = Some(Some(4))

RECURSIVE SumOf(_, _)
SumOf(values, S) ==
  IF S = {} THEN 0
  ELSE LET i == CHOOSE i \in S : TRUE
       IN  values[i] + SumOf(values, S \ {i})

\* the label the heuristic gives a centroid whose study_hours is
\* study_sum / n and whose productivity_score is score_sum / n (hundredths)
LabelOfCentroid(study_sum, score_sum, n) ==
  IF study_sum >= 600 * n /\ score_sum >= 600 * n THEN "high-focus"
  ELSE IF score_sum < 400 * n /\ study_sum < 300 * n THEN "low-energy"
  ELSE IF score_sum < 500 * n /\ study_sum >= 300 * n THEN "burnout-risk"
  ELSE "balanced"

PatternLabels == {"high-focus", "low-energy", "burnout-risk", "balanced"}

\* the records the returned model puts in the cluster of record i
ClusterOf(i) ==
  LET km == clusters[1].model[1]
  IN  {j \in 1..Len(Frame) : km.labels_[j] = km.labels_[i]}

\* the label of the centroid of the cluster of record i
CentroidLabel(i) ==
  LET study == [j \in 1..Len(Frame) |-> fillna(Frame[j].study_hours, 0).n]
      score == [j \in 1..Len(Frame) |-> fillna(Frame[j].productivity_score, 0).n]
  IN  LabelOfCentroid(SumOf(study, ClusterOf(i)), SumOf(score, ClusterOf(i)),
                      Cardinality(ClusterOf(i)))

\* C17: on success get_clusters returns one label per record in record
\* order, the label of record i being the one the heuristic gives the
\* centroid (study, score) of its cluster; every label is one of the four
\* pattern names, and the sleep_hours of the centroid plays no part
C17_CentroidLabels ==
  (ClustersReady /\ clusters[1].labels # None) =>
    LET labels == clusters[1].labels[1]
    IN  /\ Len(labels) = Len(Frame)
        /\ \A i \in 1..Len(Frame) : labels[i] = CentroidLabel(i)
        /\ \A i \in 1..Len(Frame) : labels[i] \in PatternLabels

\* a record is labelled burnout-risk or low-energy after its cluster although
\* its own study and score would be labelled otherwise
C17_Witness ==
  /\ ClustersReady
  /\ clusters[1].labels # None
  /\ \E i \in 1..Len(Frame) :
        /\ Cardinality(ClusterOf(i)) = 2
        /\ clusters[1].labels[1][i] \in {"burnout-risk", "low-energy"}
        /\ clusters[1].labels[1][i]
             # LabelOfCentroid(Frame[i].study_hours.n, Frame[i].productivity_score.n, 1)

InfiniteFeature(frame) ==
  \E i \in 1..Len(frame) :
     "inf" \in {frame[i].sleep_hours.k, frame[i].study_hours.k, frame[i].productivity_score.k}

\* C19: get_clusters never raises; it returns either labels and a model with
\* no error, or no labels and no model with an error message, never labels
\* with an error and never neither; a numeric failure inside the clustering
\* (here a feature that is infinite) gives the error form
C19_LabelsOrError ==
  ClustersReady =>
    /\ ~clusters[1].raised
    /\ \/ clusters[1].labels # None /\ clusters[1].model # None /\ clusters[1].error = None
       \/ clusters[1].labels = None /\ clusters[1].model = None /\ IsMessage(clusters[1].error)
    /\ (Len(Frame) >= 3 /\ InfiniteFeature(Frame)) =>
         (clusters[1].labels = None /\ IsMessage(clusters[1].error))

\* get_clusters has been called on three records one of which holds an
\* infinite sleep_hours
C19_Witness ==
  /\ ClustersReady
  /\ Len(Frame) = 3
  /\ InfiniteFeature(Frame)
  /\ clusters[1].error = Some(ClusteringError)

(***************************************************************************)
(* Claims about the forecaster (checked under SpecML)                      *)
(***************************************************************************)
ModelsReady == HaveFrame /\ models # <<>>

\* C20: train_regression on fewer than 2 records returns no models together
\* with the insufficient-data message, and predict_next given those absent
\* models reports the study-hours prediction and the productivity-score
\* prediction both as unavailable
C20_TooFewForRegression ==
  (ModelsReady /\ Len(Frame) < 2) =>
    /\ models[1].models = None
    /\ models[1].error = Some("Not enough data for regression (need at least 2 logs).")
    /\ prediction # <<>> => (prediction[1].study = None /\ prediction[1].score = None)

\* train_regression has been called on one record and predict_next on what
\* it returned
C20_Witness ==
  /\ ModelsReady
  /\ Len(Frame) = 1
  /\ prediction # <<>>

\* v (hundredths) is p (thousandths) rounded to 2 decimals
IsRounded2(v, p) == 10 * v - 5 <= p /\ p <= 10 * v + 5

\* C21: predict_next never raises and returns either two numbers, the study
\* hours and the productivity score each rounded to 2 decimals, or (None,
\* None), never one without the other; train_regression never raises and
\* returns either both fitted models and no error or no models and an error
\* message, never a single model
C21_BothOrNeither ==
  /\ (HaveFrame /\ prediction # <<>>) =>
       /\ ~prediction[1].raised
       /\ \/ prediction[1].study = None /\ prediction[1].score = None
          \/ /\ prediction[1].study # None
             /\ prediction[1].score # None
             /\ \E p \in Predictions :
                   /\ IsRounded2(prediction[1].study[1], p[1])
                   /\ IsRounded2(prediction[1].score[1], p[2])
  /\ ModelsReady =>
       /\ ~models[1].raised
       /\ \/ /\ models[1].models # None
             /\ DOMAIN models[1].models[1] = {"study_model", "score_model"}
             /\ models[1].error = None
          \/ models[1].models = None /\ IsMessage(models[1].error)

\* predict_next has answered (None, None) for fitted models and a sleep that
\* is no number
C21_Witness ==
  /\ ModelsReady
  /\ models[1].models # None
  /\ prediction = Some(Predicted(None, None))


(***************************************************************************)
(* Totality of the Normalizer and the Aggregator                           *)
(***************************************************************************)
\* C22: get_dataframe, weekly_summary, monthly_summary and
\* activity_heatmap_data return a result for every sequence of raw records,
\* absent, non-numeric and malformed fields included: no call raises.  The
\* three Aggregator functions are only ever given the frame get_dataframe
\* returned, so a raise can only come from get_dataframe.
C22_Total == df # <<>> => ~df[1].raised


(***************************************************************************)
(* The stored score follows the stored hours and mood                      *)
(***************************************************************************)
\* the Scorer applied to the sleep_hours, study_hours and mood a record holds
ScoreOfStored(r) ==
  compute_productivity_score([sleep_hours |-> r.sleep_hours,
                              study_hours |-> r.study_hours,
                              mood |-> r.mood])

\* C23: after any sequence of Log Activity submissions and Edit Logs updates,
\* every stored record's productivity_score is compute_productivity_score of
\* the sleep_hours, study_hours and mood the record now holds.
C23_ScoreFollowsFields ==
  \A i \in 1..Len(db) :
     /\ ~ScoreOfStored(db[i]).raised
     /\ db[i].productivity_score = Num(ScoreOfStored(db[i]).value)

\* a record an update gave new hours and mood, next to another record
C23_Witness ==
  /\ Len(db) >= 2
  /\ \E i \in 1..Len(db) :
        /\ db[i].sleep_hours = Num(600)
        /\ db[i].mood = Text(<<"t","i","r","e","d">>)
        /\ db[i].productivity_score = Num(571)


(***************************************************************************)
(* get_dataframe reads, never writes                                       *)
(***************************************************************************)
\* C24: a call of get_dataframe leaves the stored records as they were, a
\* record stored without a productivity_score still has none afterwards, and
\* the frame it returns is derived from the stored records alone.
C24_ReadOnly ==
  [][GetDataframe =>
       /\ db' = db
       /\ \A i \in 1..Len(db) :
             db[i].productivity_score = Null => db'[i].productivity_score = Null
       /\ df' = Some(get_dataframe(fetch_logs(db')))]_vars

\* the frame carries a backfilled score for a record that is stored without one
C24_Witness ==
  /\ FrameReady
  /\ \E i \in 1..Len(db) :
        /\ db[i].productivity_score = Null
        /\ \E j \in 1..Len(Frame) :
              Frame[j].id = db[i].id /\ IsNum(Frame[j].productivity_score)


(***************************************************************************)
(* Golden values and shape of the score (checked under SpecScore)          *)
(***************************************************************************)
\* the call compute_productivity_score({study_hours: 0, sleep_hours: 7.5,
\* mood: "happy"}) has returned
GoldenCall ==
  /\ result # <<>>
  /\ row = [study_hours |-> Num(0), sleep_hours |-> Num(750),
            mood |-> Text(<<"h","a","p","p","y">>)]

\* C25 as stated: compute_productivity_score for study_hours = 0,
\* sleep_hours = 7.5 and mood = "happy" returns 2.0.
C25_GoldenAsStated == GoldenCall => result[1] = Returned(200)

\* C25 (amended): compute_productivity_score for study_hours = 0,
\* sleep_hours = 7.5 and mood = "happy" returns 5.5 (0.6*0 + 0.35*10 + 2.0*1).
C25_Golden == GoldenCall => result[1] = Returned(550)

C25_Witness == GoldenCall /\ ~result[1].raised

\* valid hours: 0..24
ValidHours(cell) == IsNum(cell) /\ cell.n >= 0 /\ cell.n <= 2400

\* the call has returned for a row with valid sleep_hours
SleepCall == result # <<>> /\ ValidHours(row.sleep_hours)

\* valid sleep_hours farther from 7.5 than the row's
FartherSleeps ==
  { t \in ScoreHours : ValidHours(t) /\ Abs(750 - t.n) > Abs(750 - row.sleep_hours.n) }

\* C26 as stated: over the valid sleep_hours (0..24) the sleep component
\* max(0, 10 - |7.5 - sleep_hours|*1.5) has its maximum exactly at 7.5 and is
\* strictly smaller at every value farther from 7.5, on either side.
C26_StrictAsStated ==
  SleepCall =>
    /\ SleepComponent(row.sleep_hours.n) <= SleepComponent(750)
    /\ (SleepComponent(row.sleep_hours.n) = SleepComponent(750) => row.sleep_hours.n = 750)
    /\ \A t \in FartherSleeps : SleepComponent(t.n) < SleepComponent(row.sleep_hours.n)

\* C26 (amended): over the valid sleep_hours (0..24) the sleep component has
\* its maximum 10 exactly at 7.5, never grows as sleep_hours moves away from
\* 7.5 on either side, strictly decreases while it is positive, and is 0
\* from |7.5 - sleep_hours| >= 20/3 on (sleep_hours <= 0.83 or >= 14.17).
C26_PeakThenFloor ==
  SleepCall =>
    /\ SleepComponent(row.sleep_hours.n) <= SleepComponent(750)
    /\ SleepComponent(750) = 120000
    /\ (SleepComponent(row.sleep_hours.n) = SleepComponent(750) => row.sleep_hours.n = 750)
    /\ \A t \in FartherSleeps :
          /\ SleepComponent(t.n) <= SleepComponent(row.sleep_hours.n)
          /\ (SleepComponent(row.sleep_hours.n) > 0 =>
                SleepComponent(t.n) < SleepComponent(row.sleep_hours.n))
    /\ (SleepComponent(row.sleep_hours.n) = 0 <=> 3 * Abs(750 - row.sleep_hours.n) >= 2000)

\* a call on the floor of the sleep component, with a valid value farther out
C26_Witness ==
  /\ SleepCall
  /\ row.sleep_hours = Num(1450)
  /\ SleepComponent(row.sleep_hours.n) = 0
  /\ FartherSleeps # {}
  /\ ~result[1].raised

\* C27: for every sleep_hours and mood and every study_hours >= 12 the call
\* returns what it returns for study_hours = 12 (so score(study=12) =
\* score(study=20)).
C27_StudySaturates ==
  (result # <<>> /\ IsNum(row.study_hours) /\ row.study_hours.n >= 1200) =>
    result[1] = compute_productivity_score([row EXCEPT !.study_hours = Num(1200)])

C27_Witness ==
  /\ result # <<>>
  /\ row.study_hours = Num(2000)
  /\ row.sleep_hours = Num(600)
  /\ ~result[1].raised
  /\ result[1] = compute_productivity_score([row EXCEPT !.study_hours = Num(1200)])


(***************************************************************************)
(* The analytics functions are pure (checked under SpecPage)               *)
(***************************************************************************)
\* one call of one of the six functions on the current Dataset
AnalyticsCall ==
  \/ WeeklySummary
  \/ MonthlySummary
  \/ ActivityHeatmap
  \/ GetClusters
  \/ TrainRegression
  \/ \E s \in PredictSleeps, p \in Predictions : PredictNext(s, p[1], p[2])

\* C28: a call of weekly_summary, monthly_summary, activity_heatmap_data,
\* get_clusters, train_regression or predict_next leaves the Dataset it was
\* given (and the stored records) unchanged, and every result on the snapshot
\* is after the call either what it was before it or what its function
\* returns on the unchanged snapshot alone: no call changes what another
\* returns, in any order of calls.
C28_PureCalls ==
  [][AnalyticsCall =>
       /\ df' = df
       /\ db' = db
       /\ weekly' = weekly \/ weekly' = Some(weekly_summary(df[1].frame))
       /\ monthly' = monthly \/ monthly' = Some(monthly_summary(df[1].frame))
       /\ heatmap' = heatmap \/ heatmap' = Some(activity_heatmap_data(df[1].frame))
       /\ clusters' = clusters \/ clusters' = Some(get_clusters(df[1].frame))
       /\ models' = models \/ models' = Some(train_regression(df[1].frame))
       /\ X' = X \/ X' = Some(RegressionFeatures(df[1].frame))]_vars

\* every one of the six functions has been called on one snapshot
C28_Witness ==
  /\ HaveFrame
  /\ Len(df[1].frame) >= 3
  /\ weekly # <<>>
  /\ monthly # <<>>
  /\ heatmap # <<>> /\ heatmap[1] # EmptyDataFrame
  /\ clusters # <<>> /\ clusters[1].error = None
  /\ models # <<>> /\ models[1].error = None
  /\ prediction # <<>> /\ prediction[1].study # None


(***************************************************************************)
(* One run of the Analytics page (checked under SpecRender)                *)
(***************************************************************************)
\* the page was run on a Dataset with at least one record
PageDrawn == df # <<>> /\ ~df[1].raised /\ Len(df[1].frame) > 0

\* C29: in one run of the Analytics page on a non-empty Dataset, whatever
\* get_clusters returned (labels, the too-few-records message or a caught
\* failure), train_regression and activity_heatmap_data were called on the
\* same snapshot and their results are there; and whatever train_regression
\* and predict_next returned, the result of get_clusters and the activity
\* table are there.
C29_SiblingsStillShown ==
  PageDrawn =>
    /\ clusters = Some(get_clusters(df[1].frame))
    /\ models = Some(train_regression(df[1].frame))
    /\ heatmap = Some(activity_heatmap_data(df[1].frame))
    /\ (models[1].error # None => prediction = <<>>)
    /\ (prediction # <<>> => ~prediction[1].raised)

\* a run where get_clusters gave its too-few-records message while the
\* regression was fitted, a prediction made and the activity table drawn
\* a run where the regression failed and the clusters were drawn
FailedRegressionRun ==
  /\ PageDrawn
  /\ clusters # <<>> /\ clusters[1].error = None
  /\ models # <<>> /\ models[1].error = Some(RegressionError)

\* a run where the clustering and the regression both failed
FailedClusteringRun ==
  /\ PageDrawn
  /\ clusters # <<>> /\ clusters[1].error = Some(ClusteringError)
  /\ heatmap # <<>> /\ heatmap[1] # EmptyDataFrame

C29_Witness ==
  /\ PageDrawn
  /\ clusters # <<>> /\ clusters[1].error = Some(NotEnoughClusters)
  /\ models # <<>> /\ models[1].error = None
  /\ prediction # <<>> /\ prediction[1].study # None
  /\ heatmap # <<>> /\ heatmap[1] # EmptyDataFrame

============================================================================
